---- MODULE Spec2Model ----
(***************************************************************************)
(* Model of src/lib/ai/models.ts: the provider/model registry that is      *)
(* evaluated once at module load (Startup) and then queried through        *)
(* customModelProvider.getModel and isToolCallUnsupportedModel.            *)
(*                                                                         *)
(* Encoding of JavaScript values.  Every value is a record with a `kind`:  *)
(*   undefined, string (chars: a sequence of atoms), object (own keys in   *)
(*   enumeration order + their values), function (a built-in reached       *)
(*   through the prototype chain) and model (a LanguageModel handle; two   *)
(*   handles are the same object iff the records are equal).               *)
(* A string is a sequence of atoms.  An atom is the separator "/", the     *)
(* blank " ", or a word that contains neither; no word of the model is a   *)
(* concatenation of other words, so equal strings are equal sequences.     *)
(* No key of the model is an integer-like string, so the enumeration order *)
(* of an object's own keys is their insertion order.                       *)
(***************************************************************************)
EXTENDS Naturals, Sequences, FiniteSets

VARIABLES env, pc, conditionalStaticModels, staticUnsupportedModels,
          openaiCompatibleModels, openaiCompatibleUnsupportedModels,
          allModels, allUnsupportedModels, fallbackModel, modelsInfo, call

vars == <<env, pc, conditionalStaticModels, staticUnsupportedModels,
          openaiCompatibleModels, openaiCompatibleUnsupportedModels,
          allModels, allUnsupportedModels, fallbackModel, modelsInfo, call>>

----------------------------------------------------------------------------
(* JavaScript values *)

Undefined == [kind |-> "undefined"]

Str(chars) == [kind |-> "string", chars |-> chars]

EmptyObject == [kind |-> "object", keys |-> <<>>, val |-> <<>>]

Builtin(name) == [kind |-> "function", name |-> name]

Handle(sdk, cfg, id) == [kind |-> "model", sdk |-> sdk, cfg |-> cfg, id |-> id]

IsString(v) == v.kind = "string"

Truthy(v) ==
  CASE v.kind = "undefined" -> FALSE
    [] v.kind = "string" -> Len(v.chars) > 0
    [] OTHER -> TRUE

Or(a, b) == IF Truthy(a) THEN a ELSE b

----------------------------------------------------------------------------
(* Strings: String.prototype.trim, includes("/"), split("/", 2) *)

Whitespace == {" "}

RECURSIVE TrimStart(_)
TrimStart(s) ==
  IF s # <<>> /\ Head(s) \in Whitespace THEN TrimStart(Tail(s)) ELSE s

RECURSIVE TrimEnd(_)
TrimEnd(s) ==
  IF s # <<>> /\ s[Len(s)] \in Whitespace
    THEN TrimEnd(SubSeq(s, 1, Len(s) - 1))
    ELSE s

Trim(s) == TrimEnd(TrimStart(s))

Includes(s, sep) == \E i \in 1..Len(s) : s[i] = sep

\* every piece of s between occurrences of sep, in order
RECURSIVE SplitAll(_, _, _)
SplitAll(s, sep, cur) ==
  IF s = <<>> THEN <<cur>>
  ELSE IF Head(s) = sep THEN <<cur>> \o SplitAll(Tail(s), sep, <<>>)
  ELSE SplitAll(Tail(s), sep, Append(cur, Head(s)))

\* s.split(sep, limit): at most `limit` pieces; whatever follows them is
\* dropped, not kept in the last piece
Split(s, sep, limit) ==
  LET all == SplitAll(s, sep, <<>>)
  IN  IF Len(all) <= limit THEN all ELSE SubSeq(all, 1, limit)

----------------------------------------------------------------------------
(* Objects: own properties in enumeration order, and property reads that   *)
(* fall through to Object.prototype / Function.prototype                   *)

OwnKeys(obj) == {obj.keys[i] : i \in 1..Len(obj.keys)}

HasOwn(obj, key) == obj.kind = "object" /\ key \in OwnKeys(obj)

\* obj[key] = value on a plain object: a new key is appended, an existing
\* key keeps its position
SetProp(obj, key, value) ==
  [kind |-> "object",
   keys |-> IF key \in OwnKeys(obj) THEN obj.keys ELSE Append(obj.keys, key),
   val  |-> [k \in OwnKeys(obj) \cup {key} |-> IF k = key THEN value ELSE obj.val[k]]]

\* an object literal { k1: v1, k2: v2, ... } given as a sequence of <<k, v>>
RECURSIVE ObjectLiteral(_)
ObjectLiteral(pairs) ==
  IF pairs = <<>> THEN EmptyObject
  ELSE LET n == Len(pairs)
       IN  SetProp(ObjectLiteral(SubSeq(pairs, 1, n - 1)), pairs[n][1], pairs[n][2])

\* Object.keys / Object.values / Object.entries
ObjectKeys(obj) == obj.keys

ObjectValues(obj) == [i \in 1..Len(obj.keys) |-> obj.val[obj.keys[i]]]

ObjectEntries(obj) == [i \in 1..Len(obj.keys) |-> <<obj.keys[i], obj.val[obj.keys[i]]>>]

\* what every function inherits
FunctionPrototypeGet(fn, key) ==
  CASE key = <<"name">> -> Str(<<fn.name>>)
    [] key = <<"constructor">> -> Builtin("Function")
    [] OTHER -> Undefined

\* what every plain object inherits
ObjectPrototypeGet(key) ==
  CASE key = <<"constructor">> -> Builtin("Object")
    [] key = <<"toString">> -> Builtin("toString")
    [] OTHER -> Undefined

\* obj[key] with JavaScript's lookup along the prototype chain
Get(obj, key) ==
  CASE obj.kind = "object" ->
         IF key \in OwnKeys(obj) THEN obj.val[key] ELSE ObjectPrototypeGet(key)
    [] obj.kind = "function" -> FunctionPrototypeGet(obj, key)
    [] OTHER -> Undefined

\* obj?.[key]
OptGet(obj, key) == IF obj.kind = "undefined" THEN Undefined ELSE Get(obj, key)

----------------------------------------------------------------------------
(* Presence flags *)

\* has without the trim
hasUntrimmed(v) == IsString(v) /\ Len(v.chars) > 0

has(v) == IsString(v) /\ Len(Trim(v.chars)) > 0

HAS_OPENAI == has(env.OPENAI_API_KEY)
HAS_GOOGLE == has(env.GOOGLE_GENERATIVE_AI_API_KEY)
HAS_ANTHROPIC == has(env.ANTHROPIC_API_KEY)
HAS_XAI == has(env.XAI_API_KEY)
HAS_OPENROUTER == has(env.OPENROUTER_API_KEY)
HAS_OLLAMA == has(env.OLLAMA_BASE_URL)

\* createOllama({ baseURL: process.env.OLLAMA_BASE_URL || default })
ollamaBaseURL == Or(env.OLLAMA_BASE_URL, Str(<<"http:", "/", "/", "localhost:11434", "/", "api">>))

openai(id) == Handle("openai", Undefined, id)
google(id) == Handle("google", Undefined, id)
anthropic(id) == Handle("anthropic", Undefined, id)
xai(id) == Handle("xai", Undefined, id)
ollama(id) == Handle("ollama", ollamaBaseURL, id)
openrouter(id) == Handle("openrouter", Undefined, id)

----------------------------------------------------------------------------
(* Static catalog *)

openaiModels ==
  ObjectLiteral(<< <<(<<"gpt-4.1">>), openai("gpt-4.1")>>,
                   <<(<<"gpt-4.1-mini">>), openai("gpt-4.1-mini")>>,
                   <<(<<"o4-mini">>), openai("o4-mini")>>,
                   <<(<<"o3">>), openai("o3")>>,
                   <<(<<"gpt-5">>), openai("gpt-5")>>,
                   <<(<<"gpt-5-mini">>), openai("gpt-5-mini")>>,
                   <<(<<"gpt-5-nano">>), openai("gpt-5-nano")>> >>)

googleModels ==
  ObjectLiteral(<< <<(<<"gemini-2.5-flash-lite">>), google("gemini-2.5-flash-lite")>>,
                   <<(<<"gemini-2.5-flash">>), google("gemini-2.5-flash")>>,
                   <<(<<"gemini-2.5-pro">>), google("gemini-2.5-pro")>> >>)

anthropicModels ==
  ObjectLiteral(<< <<(<<"claude-4-sonnet">>), anthropic("claude-4-sonnet-20250514")>>,
                   <<(<<"claude-4-opus">>), anthropic("claude-4-opus-20250514")>>,
                   <<(<<"claude-3-7-sonnet">>), anthropic("claude-3-7-sonnet-20250219")>> >>)

xaiModels ==
  ObjectLiteral(<< <<(<<"grok-4">>), xai("grok-4")>>,
                   <<(<<"grok-3">>), xai("grok-3")>>,
                   <<(<<"grok-3-mini">>), xai("grok-3-mini")>> >>)

ollamaModels ==
  ObjectLiteral(<< <<(<<"gemma3:1b">>), ollama("gemma3:1b")>>,
                   <<(<<"gemma3:4b">>), ollama("gemma3:4b")>>,
                   <<(<<"gemma3:12b">>), ollama("gemma3:12b")>> >>)

openRouterModels ==
  ObjectLiteral(<< <<(<<"gpt-oss-20b:free">>), openrouter("openai/gpt-oss-20b:free")>>,
                   <<(<<"qwen3-8b:free">>), openrouter("qwen/qwen3-8b:free")>>,
                   <<(<<"qwen3-14b:free">>), openrouter("qwen/qwen3-14b:free")>>,
                   <<(<<"qwen3-coder:free">>), openrouter("qwen/qwen3-coder:free")>>,
                   <<(<<"deepseek-r1:free">>), openrouter("deepseek/deepseek-r1-0528:free")>>,
                   <<(<<"deepseek-v3:free">>), openrouter("deepseek/deepseek-chat-v3-0324:free")>>,
                   <<(<<"gemini-2.0-flash-exp:free">>), openrouter("google/gemini-2.0-flash-exp:free")>> >>)

\* if (flag) catalog[key] = models
AssignIf(flag, catalog, key, models) ==
  IF flag THEN SetProp(catalog, key, models) ELSE catalog

\* the value of conditionalStaticModels after lines 32-97
BuildConditionalStaticModels ==
  LET c0 == EmptyObject
      c1 == AssignIf(HAS_OPENAI, c0, <<"openai">>, openaiModels)
      c2 == AssignIf(HAS_GOOGLE, c1, <<"google">>, googleModels)
      c3 == AssignIf(HAS_ANTHROPIC, c2, <<"anthropic">>, anthropicModels)
      c4 == AssignIf(HAS_XAI, c3, <<"xai">>, xaiModels)
      c5 == AssignIf(HAS_OLLAMA, c4, <<"ollama">>, ollamaModels)
      c6 == AssignIf(HAS_OPENROUTER, c5, <<"openRouter">>, openRouterModels)
  IN  c6

\* the (provider, model) pairs the array literal of lines 100-128 spreads
StaticUnsupportedPairs ==
  << <<(<<"openai">>), (<<"o4-mini">>)>>,
     <<(<<"ollama">>), (<<"gemma3:1b">>)>>,
     <<(<<"ollama">>), (<<"gemma3:4b">>)>>,
     <<(<<"ollama">>), (<<"gemma3:12b">>)>>,
     <<(<<"openRouter">>), (<<"gpt-oss-20b:free">>)>>,
     <<(<<"openRouter">>), (<<"qwen3-8b:free">>)>>,
     <<(<<"openRouter">>), (<<"qwen3-14b:free">>)>>,
     <<(<<"openRouter">>), (<<"deepseek-r1:free">>)>>,
     <<(<<"openRouter">>), (<<"gemini-2.0-flash-exp:free">>)>> >>

\* ...(catalog.p?.[m] ? [catalog.p[m]] : [])
SpreadIfPresent(catalog, pair) ==
  IF Truthy(OptGet(Get(catalog, pair[1]), pair[2]))
    THEN {Get(Get(catalog, pair[1]), pair[2])}
    ELSE {}

\* the set built without the presence guards
BuildStaticUnsupportedUnguarded(catalog) ==
  {openai("o4-mini"), ollama("gemma3:1b"), ollama("gemma3:4b"), ollama("gemma3:12b"),
   openrouter("openai/gpt-oss-20b:free"), openrouter("qwen/qwen3-8b:free"),
   openrouter("qwen/qwen3-14b:free"), openrouter("deepseek/deepseek-r1-0528:free"),
   openrouter("google/gemini-2.0-flash-exp:free")}

\* new Set([...]) over the pairs above
BuildStaticUnsupportedModels(catalog) ==
  UNION {SpreadIfPresent(catalog, StaticUnsupportedPairs[i]) :
           i \in 1..Len(StaticUnsupportedPairs)}

----------------------------------------------------------------------------
(* Dynamic catalog (./create-openai-compatiable).  The payload is kept in  *)
(* parsed form: whether the text is well-formed, and its entries; an entry *)
(* has a provider name and an ordered list of models, each with a name and *)
(* a supportsTools flag.                                                   *)

\* an entry is kept when its model list is not empty and no earlier kept
\* entry has its name
RECURSIVE KeepValidEntries(_, _)
KeepValidEntries(entries, seen) ==
  IF entries = <<>> THEN <<>>
  ELSE LET e == Head(entries)
           ok == /\ Len(e.models) > 0
                 /\ e.provider.chars \notin seen
       IN  IF ok
             THEN <<e>> \o KeepValidEntries(Tail(entries), seen \cup {e.provider.chars})
             ELSE KeepValidEntries(Tail(entries), seen)

openaiCompatibleModelsSafeParse(data) ==
  IF data.kind = "payload" /\ data.wellFormed
    THEN KeepValidEntries(data.entries, {})
    ELSE <<>>

CompatibleHandle(provider, name) == Handle("openai-compatible", Str(provider), name)

RECURSIVE CompatibleModelsOf(_, _)
CompatibleModelsOf(provider, models) ==
  IF models = <<>> THEN EmptyObject
  ELSE LET n == Len(models)
       IN  SetProp(CompatibleModelsOf(provider, SubSeq(models, 1, n - 1)),
                   models[n].name, CompatibleHandle(provider, models[n].name))

RECURSIVE CompatibleProviders(_)
CompatibleProviders(config) ==
  IF config = <<>> THEN EmptyObject
  ELSE LET n == Len(config)
       IN  SetProp(CompatibleProviders(SubSeq(config, 1, n - 1)),
                   config[n].provider.chars,
                   CompatibleModelsOf(config[n].provider.chars, config[n].models))

CompatibleUnsupported(config) ==
  UNION {{CompatibleHandle(config[i].provider.chars, config[i].models[j].name) :
            j \in {k \in 1..Len(config[i].models) : ~config[i].models[k].supportsTools}} :
           i \in 1..Len(config)}

createOpenAICompatibleModels(config) ==
  [providers |-> CompatibleProviders(config),
   unsupportedModels |-> CompatibleUnsupported(config)]

----------------------------------------------------------------------------
(* Merge *)

\* { ...under, ...over }: the keys of `under` in their order, then the keys
\* only `over` has; a key of both keeps under's position and over's value
RECURSIVE SpreadInto(_, _)
SpreadInto(target, entries) ==
  IF entries = <<>> THEN target
  ELSE SpreadInto(SetProp(target, Head(entries)[1], Head(entries)[2]), Tail(entries))

Spread2(under, over) ==
  SpreadInto(SpreadInto(EmptyObject, ObjectEntries(under)), ObjectEntries(over))

\* the spreads in the other order: { ...static, ...dynamic }
MergeDynamicOverStatic(dynamic, static) == Spread2(static, dynamic)

MergeAllModels(dynamic, static) == Spread2(dynamic, static)

\* the merged set without the dynamic catalog's flags
MergeUnsupportedStaticOnly(dynamicSet, staticSet) == staticSet

MergeUnsupported(dynamicSet, staticSet) == dynamicSet \cup staticSet

\* allUnsupportedModels.has(model)
isToolCallUnsupportedModel(model) == model \in allUnsupportedModels

----------------------------------------------------------------------------
(* resolveFallback *)

Returned(value) == [threw |-> FALSE, value |-> value]

Threw == [threw |-> TRUE, value |-> Undefined]

\* (process.env.E2E_DEFAULT_MODEL || "").trim()
configuredDefault == Trim(Or(env.E2E_DEFAULT_MODEL, Str(<<>>)).chars)

\* lines 160-164: `found`, or Undefined when the branch is not taken
ExplicitDefault(all) ==
  IF Includes(configuredDefault, "/")
    THEN LET parts == Split(configuredDefault, "/", 2)
             provider == parts[1]
             model == parts[2]
         IN  OptGet(OptGet(all, provider), model)
    ELSE Undefined

\* the preferred model looked up under another key
PreferredOpenAIOtherKey(static) == OptGet(Get(static, <<"openai">>), <<"gpt-4.1-mini">>)

\* lines 167-169
PreferredOpenAI(static) == OptGet(Get(static, <<"openai">>), <<"gpt-4.1">>)

\* lines 172-175: the loop from the i-th key on
RECURSIVE FirstAvailableFrom(_, _)
FirstAvailableFrom(all, i) ==
  IF i > Len(ObjectKeys(all)) THEN Undefined
  ELSE LET provider == ObjectKeys(all)[i]
           entries == ObjectValues(Or(Get(all, provider), EmptyObject))
       IN  IF Len(entries) > 0 THEN entries[1] ELSE FirstAvailableFrom(all, i + 1)

\* the loop returning the last model of the provider instead of the first
RECURSIVE LastOfFirstProviderFrom(_, _)
LastOfFirstProviderFrom(all, i) ==
  IF i > Len(ObjectKeys(all)) THEN Undefined
  ELSE LET provider == ObjectKeys(all)[i]
           entries == ObjectValues(Or(Get(all, provider), EmptyObject))
       IN  IF Len(entries) > 0 THEN entries[Len(entries)]
                               ELSE LastOfFirstProviderFrom(all, i + 1)

FirstAvailableLastModel(all) == LastOfFirstProviderFrom(all, 1)

FirstAvailable(all) == FirstAvailableFrom(all, 1)

\* lines 178-181
LocalOllama(static) ==
  IF Truthy(Get(static, <<"ollama">>))
    THEN LET values == ObjectValues(Get(static, <<"ollama">>))
         IN  IF Len(values) > 0 THEN values[1] ELSE Undefined
    ELSE Undefined

resolveFallback(all, static) ==
  IF Truthy(ExplicitDefault(all)) THEN Returned(ExplicitDefault(all))
  ELSE IF Truthy(PreferredOpenAI(static)) THEN Returned(PreferredOpenAI(static))
  ELSE IF FirstAvailable(all) # Undefined THEN Returned(FirstAvailable(all))
  ELSE IF LocalOllama(static) # Undefined THEN Returned(LocalOllama(static))
  ELSE Threw

----------------------------------------------------------------------------
(* customModelProvider *)

BuildModelsInfo(all, unsupported) ==
  [i \in 1..Len(ObjectEntries(all)) |->
     LET provider == ObjectEntries(all)[i][1]
         models == ObjectEntries(all)[i][2]
     IN  [provider |-> provider,
          models |-> [j \in 1..Len(ObjectEntries(models)) |->
                        [name |-> ObjectEntries(models)[j][1],
                         isToolCallUnsupported |->
                           ObjectEntries(models)[j][2] \in unsupported]]]]

ChatModel(provider, model) == [kind |-> "chatModel", provider |-> provider, model |-> model]

getModel(model) ==
  IF ~Truthy(model) THEN fallbackModel
  ELSE Or(OptGet(Get(allModels, model.provider), model.model), fallbackModel)

----------------------------------------------------------------------------
(* The environments the process is started in *)

MaxEntries == 2
MaxModels == 2

PresenceValues == {Undefined, Str(<<" ">>), Str(<<"k">>)}

\* the models a compatible provider may list, in payload order
DynModelPool ==
  << [name |-> <<"m1">>, supportsTools |-> FALSE],
     [name |-> <<"meta", "/", "llama">>, supportsTools |-> TRUE],
     [name |-> <<"gpt-4.1">>, supportsTools |-> TRUE] >>

\* the empty list, and the runs of the pool of at most MaxModels models that
\* start at its first model or end at its last
DynModelLists ==
  {SubSeq(DynModelPool, i, j) :
     <<i, j>> \in {x \in (1..Len(DynModelPool)) \X (0..Len(DynModelPool)) :
                     /\ x[2] - x[1] < MaxModels
                     /\ x[1] <= x[2] + 1
                     /\ (x[1] = 1 \/ x[2] = Len(DynModelPool))}}

DynProviderNames == {<<"acme">>, <<"openai">>}

DynEntries ==
  {[provider |-> Str(p), models |-> l] : p \in DynProviderNames, l \in DynModelLists}

Payload(entries) == [kind |-> "payload", wellFormed |-> TRUE, entries |-> entries]

MalformedPayload == [kind |-> "payload", wellFormed |-> FALSE, entries |-> <<>>]

DynPayloads ==
  {Undefined, MalformedPayload}
    \cup {Payload(es) : es \in UNION {[1..n -> DynEntries] : n \in 0..MaxEntries}}

AcmePayload ==
  Payload(<<[provider |-> Str(<<"acme">>), models |-> SubSeq(DynModelPool, 1, 2)]>>)

DefaultValues ==
  {Undefined,
   Str(<<" ", "acme", "/", "m1", " ">>),
   Str(<<"acme", "/", "meta", "/", "llama">>),
   Str(<<"constructor", "/", "name">>)}

\* every combination of the six presence values, few payloads and defaults
PresenceEnvs ==
  [OPENAI_API_KEY : PresenceValues,
   GOOGLE_GENERATIVE_AI_API_KEY : PresenceValues,
   ANTHROPIC_API_KEY : PresenceValues,
   XAI_API_KEY : PresenceValues,
   OPENROUTER_API_KEY : PresenceValues,
   OLLAMA_BASE_URL : PresenceValues,
   OPENAI_COMPATIBLE_DATA : {Undefined, AcmePayload},
   E2E_DEFAULT_MODEL : {Undefined,
                        Str(<<"openai", "/", "o4-mini">>),
                        Str(<<"constructor", "/", "name">>)}]

\* every payload and default, with or without the OpenAI key
PayloadEnvs ==
  [OPENAI_API_KEY : {Undefined, Str(<<"k">>)},
   GOOGLE_GENERATIVE_AI_API_KEY : {Undefined},
   ANTHROPIC_API_KEY : {Undefined},
   XAI_API_KEY : {Undefined},
   OPENROUTER_API_KEY : {Undefined},
   OLLAMA_BASE_URL : {Undefined},
   OPENAI_COMPATIBLE_DATA : DynPayloads,
   E2E_DEFAULT_MODEL : DefaultValues]

\* the references callers pass to getModel
ChatModels ==
  {Undefined,
   ChatModel(<<"acme">>, <<"m1">>),
   ChatModel(<<"nonexistent">>, <<"x">>),
   ChatModel(<<"openai">>, <<"x">>),
   ChatModel(<<"constructor">>, <<"name">>)}

\* the handles callers pass to isToolCallUnsupportedModel
ProbeHandles ==
  {openai("gpt-4.1"),
   CompatibleHandle(<<"acme">>, <<"m1">>),
   CompatibleHandle(<<"openai">>, <<"m1">>)}

----------------------------------------------------------------------------
(* The state machine *)

NoCall == [op |-> "none", arg |-> Undefined, result |-> Undefined]

Init ==
  /\ env \in PresenceEnvs \cup PayloadEnvs
  /\ pc = "boot"
  /\ conditionalStaticModels = Undefined
  /\ staticUnsupportedModels = {}
  /\ openaiCompatibleModels = Undefined
  /\ openaiCompatibleUnsupportedModels = {}
  /\ allModels = Undefined
  /\ allUnsupportedModels = {}
  /\ fallbackModel = Undefined
  /\ modelsInfo = Undefined
  /\ call = NoCall

\* the module body, lines 16-202, evaluated once at load
Startup ==
  /\ pc = "boot"
  /\ LET static == BuildConditionalStaticModels
         staticUnsupported == BuildStaticUnsupportedModels(static)
         openaiCompatibleProviders ==
           openaiCompatibleModelsSafeParse(env.OPENAI_COMPATIBLE_DATA)
         dynamic == createOpenAICompatibleModels(openaiCompatibleProviders)
         all == MergeAllModels(dynamic.providers, static)
         unsupported == MergeUnsupported(dynamic.unsupportedModels, staticUnsupported)
         fallback == resolveFallback(all, static)
     IN  /\ conditionalStaticModels' = static
         /\ staticUnsupportedModels' = staticUnsupported
         /\ openaiCompatibleModels' = dynamic.providers
         /\ openaiCompatibleUnsupportedModels' = dynamic.unsupportedModels
         /\ allModels' = all
         /\ allUnsupportedModels' = unsupported
         /\ fallbackModel' = fallback.value
         /\ modelsInfo' = IF fallback.threw THEN Undefined
                                            ELSE BuildModelsInfo(all, unsupported)
         /\ pc' = IF fallback.threw THEN "failed" ELSE "ready"
  /\ UNCHANGED <<env, call>>

GetModel(model) ==
  /\ pc = "ready"
  /\ call' = [op |-> "getModel", arg |-> model, result |-> getModel(model)]
  /\ UNCHANGED <<env, pc, conditionalStaticModels, staticUnsupportedModels,
                 openaiCompatibleModels, openaiCompatibleUnsupportedModels,
                 allModels, allUnsupportedModels, fallbackModel, modelsInfo>>

IsToolCallUnsupportedModel(model) ==
  /\ pc = "ready"
  /\ call' = [op |-> "isToolCallUnsupportedModel", arg |-> model,
              result |-> isToolCallUnsupportedModel(model)]
  /\ UNCHANGED <<env, pc, conditionalStaticModels, staticUnsupportedModels,
                 openaiCompatibleModels, openaiCompatibleUnsupportedModels,
                 allModels, allUnsupportedModels, fallbackModel, modelsInfo>>

Next ==
  \/ Startup
  \/ \E model \in ChatModels : GetModel(model)
  \/ \E model \in ProbeHandles : IsToolCallUnsupportedModel(model)

Spec == Init /\ [][Next]_vars

----------------------------------------------------------------------------
(* Vocabulary of the properties *)

ValuesOf(obj) == {obj.val[k] : k \in OwnKeys(obj)}

\* the handles that are the value of some (provider, model) entry
EntriesOf(registry) == UNION {ValuesOf(registry.val[p]) : p \in OwnKeys(registry)}

NonBlank(v) == v.kind = "string" /\ \E i \in 1..Len(v.chars) : v.chars[i] \notin Whitespace

IsEntryRef(ref) ==
  /\ HasOwn(allModels, ref.provider)
  /\ HasOwn(allModels.val[ref.provider], ref.model)

PresenceVars ==
  {"OPENAI_API_KEY", "GOOGLE_GENERATIVE_AI_API_KEY", "ANTHROPIC_API_KEY",
   "XAI_API_KEY", "OPENROUTER_API_KEY", "OLLAMA_BASE_URL"}

FirstParty ==
  << <<(<<"openai">>), "OPENAI_API_KEY", openaiModels>>,
     <<(<<"google">>), "GOOGLE_GENERATIVE_AI_API_KEY", googleModels>>,
     <<(<<"anthropic">>), "ANTHROPIC_API_KEY", anthropicModels>>,
     <<(<<"xai">>), "XAI_API_KEY", xaiModels>>,
     <<(<<"ollama">>), "OLLAMA_BASE_URL", ollamaModels>>,
     <<(<<"openRouter">>), "OPENROUTER_API_KEY", openRouterModels>> >>

\* step 1 of the fallback order returned nothing
NoExplicitDefault == ~Truthy(ExplicitDefault(allModels))

HasPreferredEntry ==
  /\ HasOwn(allModels, <<"openai">>)
  /\ HasOwn(allModels.val[<<"openai">>], <<"gpt-4.1">>)

----------------------------------------------------------------------------
(* C1 *)

\* C1: once startup has succeeded, getModel of a reference whose provider is
\* no key of the merged registry, or whose model is no key of that
\* provider's mapping, returns what getModel(undefined) returns.
C1_UnknownSelectionFailOpen ==
  (/\ pc = "ready"
   /\ call.op = "getModel"
   /\ call.arg # Undefined
   /\ ~IsEntryRef(call.arg))
    => call.result = getModel(Undefined)

(* C2 *)

\* C2: for every entry (p, m) of the merged registry, when E2E_DEFAULT_MODEL
\* trimmed is p + "/" + m, getModel(undefined) returns registry[p][m].
C2_ExplicitDefaultWins ==
  pc = "ready" =>
    \A p \in OwnKeys(allModels) : \A m \in OwnKeys(allModels.val[p]) :
      (/\ IsString(env.E2E_DEFAULT_MODEL)
       /\ Trim(env.E2E_DEFAULT_MODEL.chars) = p \o <<"/">> \o m)
        => getModel(Undefined) = allModels.val[p].val[m]

(* C3 *)

\* C3: with every presence value unset or blank and no dynamic provider,
\* startup throws, whatever E2E_DEFAULT_MODEL is.
C3_EmptyRegistryIsFatal ==
  (/\ pc # "boot"
   /\ \A var \in PresenceVars : ~NonBlank(env[var])
   /\ OwnKeys(openaiCompatibleModels) = {})
    => pc = "failed"

(* C4 *)

\* C4: a provider of both catalogs has exactly the static mapping in the
\* merged registry and none of the dynamic catalog's handles; a provider of
\* one catalog keeps that catalog's mapping; the registry has no other key.
C4_StaticOverDynamic ==
  pc # "boot" =>
    /\ OwnKeys(allModels) = OwnKeys(conditionalStaticModels) \cup OwnKeys(openaiCompatibleModels)
    /\ \A p \in OwnKeys(conditionalStaticModels) :
         /\ allModels.val[p] = conditionalStaticModels.val[p]
         /\ p \in OwnKeys(openaiCompatibleModels) =>
              ValuesOf(allModels.val[p]) \cap ValuesOf(openaiCompatibleModels.val[p]) = {}
    /\ \A p \in OwnKeys(openaiCompatibleModels) \ OwnKeys(conditionalStaticModels) :
         allModels.val[p] = openaiCompatibleModels.val[p]

C4_Witness ==
  /\ pc = "ready"
  /\ \E p \in OwnKeys(conditionalStaticModels) \cap OwnKeys(openaiCompatibleModels) :
       ValuesOf(openaiCompatibleModels.val[p]) # {}
  /\ OwnKeys(openaiCompatibleModels) \ OwnKeys(conditionalStaticModels) # {}

(* C5 *)

\* C5: the static catalog has a first-party provider's key iff that
\* provider's own presence value is a string with a non-whitespace
\* character; a present provider maps to its full, non-empty model list, and
\* the catalog has no other key.
C5_PresenceGating ==
  pc # "boot" =>
    /\ \A i \in 1..Len(FirstParty) :
         LET key == FirstParty[i][1]
             models == FirstParty[i][3]
         IN  /\ HasOwn(conditionalStaticModels, key) <=> NonBlank(env[FirstParty[i][2]])
             /\ HasOwn(conditionalStaticModels, key) =>
                  /\ conditionalStaticModels.val[key] = models
                  /\ Len(conditionalStaticModels.val[key].keys) > 0
    /\ OwnKeys(conditionalStaticModels) \subseteq {FirstParty[i][1] : i \in 1..Len(FirstParty)}

C5_Witness ==
  /\ pc # "boot"
  /\ env.OPENAI_API_KEY = Str(<<"k">>)
  /\ env.GOOGLE_GENERATIVE_AI_API_KEY = Str(<<" ">>)
  /\ env.XAI_API_KEY = Undefined
  /\ OwnKeys(conditionalStaticModels) = {<<"openai">>}

(* C6 *)

\* the handle is the static handle of an unsupported pair whose provider is
\* present, or was flagged by the dynamic catalog builder
DeclaredUnsupported(h) ==
  \/ \E i \in 1..Len(StaticUnsupportedPairs) :
       LET p == StaticUnsupportedPairs[i][1]
           m == StaticUnsupportedPairs[i][2]
       IN  /\ HasOwn(conditionalStaticModels, p)
           /\ HasOwn(conditionalStaticModels.val[p], m)
           /\ h = conditionalStaticModels.val[p].val[m]
  \/ h \in openaiCompatibleUnsupportedModels

\* C6: for every handle of the merged registry, isToolCallUnsupportedModel is
\* true iff the handle is declared unsupported (statically, with its provider
\* present, or by the dynamic builder); modelsInfo lists exactly the
\* registry's providers and models in order, each with that flag; and a
\* query on a registry handle answers the same.
C6_CapabilityFlagExact ==
  pc = "ready" =>
    /\ \A h \in EntriesOf(allModels) :
         isToolCallUnsupportedModel(h) <=> DeclaredUnsupported(h)
    /\ Len(modelsInfo) = Len(allModels.keys)
    /\ \A i \in 1..Len(modelsInfo) :
         LET models == allModels.val[allModels.keys[i]]
         IN  /\ modelsInfo[i].provider = allModels.keys[i]
             /\ Len(modelsInfo[i].models) = Len(models.keys)
             /\ \A j \in 1..Len(models.keys) :
                  /\ modelsInfo[i].models[j].name = models.keys[j]
                  /\ modelsInfo[i].models[j].isToolCallUnsupported
                       <=> DeclaredUnsupported(models.val[models.keys[j]])
    /\ (call.op = "isToolCallUnsupportedModel" /\ call.arg \in EntriesOf(allModels))
         => (call.result <=> DeclaredUnsupported(call.arg))

C6_Witness ==
  /\ pc = "ready"
  /\ call.op = "isToolCallUnsupportedModel"
  /\ call.arg = CompatibleHandle(<<"acme">>, <<"m1">>)
  /\ call.result
  /\ {call.arg, openai("o4-mini"), openai("gpt-4.1"),
      CompatibleHandle(<<"acme">>, <<"meta", "/", "llama">>)} \subseteq EntriesOf(allModels)
  /\ isToolCallUnsupportedModel(openai("o4-mini"))
  /\ ~isToolCallUnsupportedModel(openai("gpt-4.1"))
  /\ ~isToolCallUnsupportedModel(CompatibleHandle(<<"acme">>, <<"meta", "/", "llama">>))

(* C7 *)

\* C7 as stated: when step 1 returns nothing and the merged registry has an
\* openai / gpt-4.1 entry, from whichever catalog, getModel(undefined) is that
\* entry.
C7_PreferredFromAnyCatalog ==
  (pc = "ready" /\ NoExplicitDefault /\ HasPreferredEntry)
    => getModel(Undefined) = allModels.val[<<"openai">>].val[<<"gpt-4.1">>]

\* C7 amended: when step 1 returns nothing and the static catalog has the
\* openai provider (OPENAI_API_KEY is non-blank), the fallback, and so
\* getModel(undefined), is the static openai / gpt-4.1 handle, which is the
\* merged registry's openai / gpt-4.1 entry.
C7_PreferredFromStaticCatalog ==
  (pc = "ready" /\ NoExplicitDefault /\ NonBlank(env.OPENAI_API_KEY))
    => /\ HasPreferredEntry
       /\ fallbackModel = conditionalStaticModels.val[<<"openai">>].val[<<"gpt-4.1">>]
       /\ fallbackModel = allModels.val[<<"openai">>].val[<<"gpt-4.1">>]
       /\ getModel(Undefined) = fallbackModel
       /\ (call.op = "getModel" /\ call.arg = Undefined) => call.result = fallbackModel

C7_Witness ==
  /\ pc = "ready"
  /\ NoExplicitDefault
  /\ NonBlank(env.OPENAI_API_KEY)
  /\ allModels.keys[1] = <<"acme">>
  /\ call.op = "getModel"
  /\ call.arg = Undefined
  /\ call.result = openai("gpt-4.1")

(* C8 *)

\* the i-th provider of the merged key order is the first with a model
FirstWithModels(i) ==
  /\ Len(allModels.val[allModels.keys[i]].keys) > 0
  /\ \A j \in 1..(i - 1) : Len(allModels.val[allModels.keys[j]].keys) = 0

C9_ResolutionInsideRegistry ==
  pc = "ready" =>
    /\ fallbackModel \in EntriesOf(allModels)
    /\ call.op = "getModel" =>
         /\ call.result \in EntriesOf(allModels)
         /\ (call.arg # Undefined /\ IsEntryRef(call.arg))
              => call.result = allModels.val[call.arg.provider].val[call.arg.model]

(* C10 *)

\* C10 as stated: every handle of the merged unsupported set is an entry of
\* the merged registry.
C10_UnsupportedInsideRegistry ==
  pc # "boot" => allUnsupportedModels \subseteq EntriesOf(allModels)

\* the handle belongs to a dynamic provider whose name is also a static key
DiscardedByMerge(h) ==
  \E p \in OwnKeys(openaiCompatibleModels) \cap OwnKeys(conditionalStaticModels) :
    h \in ValuesOf(openaiCompatibleModels.val[p])

\* C10 amended: every static unsupported handle is an entry of the merged
\* registry; every other handle of the merged unsupported set is an entry of
\* the dynamic catalog, and is an entry of the merged registry unless its
\* provider's name is also a key of the static catalog.
C10_UnsupportedInsideCatalogs ==
  pc # "boot" =>
    /\ staticUnsupportedModels \subseteq EntriesOf(allModels)
    /\ \A h \in allUnsupportedModels \ staticUnsupportedModels :
         /\ h \in EntriesOf(openaiCompatibleModels)
         /\ h \in EntriesOf(allModels) <=> ~DiscardedByMerge(h)

C10_Witness ==
  /\ pc = "ready"
  /\ staticUnsupportedModels # {}
  /\ \E h \in allUnsupportedModels : DiscardedByMerge(h)
  /\ \E h \in allUnsupportedModels \ staticUnsupportedModels : h \in EntriesOf(allModels)

====
